---- MODULE Spec2Model ----
(***************************************************************************)
(* gitsy: an interactive terminal front-end for git worktrees.             *)
(* Model of src/src/main.rs: the first-run setup flow, the screen state    *)
(* machine of App, the line editor both use, and the worktree gateway      *)
(* (git worktree add/list/remove, git2 branch comparison) seen as an       *)
(* external party whose answers are chosen nondeterministically.           *)
(*                                                                         *)
(* A Rust String is modelled as a sequence of characters; every character  *)
(* has a UTF-8 width, and String::len, String::insert and String::remove   *)
(* work on byte offsets as they do in Rust.  Longer texts (messages,       *)
(* stderr) are sequences whose elements are characters or fixed fragments. *)
(* Option<T> is a sequence of length 0 (None) or 1 (Some).                 *)
(*                                                                         *)
(* Each key handler is an operator from the App, the key and the answer of *)
(* the gateway to the handler's outcome; an action of the specification is *)
(* one iteration of an event loop applying it.  Failures of the terminal   *)
(* (draw, poll, read) and of reading an existing config file are left out; *)
(* a poll that times out changes nothing.                                  *)
(*                                                                         *)
(* Spec is the process from main on.  ParseSpec follows the loop of        *)
(* load_branches line by line over the listings git can print.             *)
(***************************************************************************)
EXTENDS Integers, Sequences, FiniteSets, TLC

VARIABLES
    pc,          \* where the process is: "setup" (run_tui_setup), "main" (run_app), or
                 \* how it ended: "cancelled", "save_failed", "interrupted" (Ctrl+C),
                 \* "exited", "failed", "panicked"
    config_file, \* Option: the worktree_path stored in .gitsy.toml
    setup,       \* the SetupApp of run_tui_setup while pc = "setup", else NoSetup
    app,         \* the App of run_main_app while pc = "main", else NoApp
    sync_query,  \* history: the is_in_sync answer still standing for the selected branch
    since_list,  \* history, kept while the delete list is on screen: the list call
                 \* that loaded it and the create and remove calls issued since
    load         \* the locals of load_branches while its loop is followed line by
                 \* line (ParseSpec), else NoLoad

vars == <<pc, config_file, setup, app, sync_query, since_list, load>>

-----------------------------------------------------------------------------
(* Bounds of the model. *)

\* longest branch name typed in CreateBranch, in characters
MaxInput == 2

\* longest worktree path typed in the setup flow, in characters
MaxSetupInput == 1

\* most worktree records git prints after that of the main worktree, where
\* the loop of load_branches is followed line by line
MaxRecords == 3

-----------------------------------------------------------------------------
(* Option<T> *)

None == <<>>
Some(x) == <<x>>
IsSome(o) == Len(o) = 1
Unwrap(o) == o[1]

-----------------------------------------------------------------------------
(* Strings.  "c" stands for any character encoded in one byte, "E" for a   *)
(* character encoded in two bytes (such as e-acute).                        *)

TypedChars == {"c", "E"}

\* char::len_utf8
Utf8Len(ch) == IF ch = "E" THEN 2 ELSE 1

\* String::len: the length in bytes
RECURSIVE StrLen(_)
StrLen(s) == IF s = <<>> THEN 0 ELSE Utf8Len(Head(s)) + StrLen(Tail(s))

\* the number of characters of s that lie wholly before byte offset idx
RECURSIVE CharsBefore(_, _)
CharsBefore(s, idx) ==
    IF s = <<>> \/ idx < Utf8Len(Head(s)) THEN 0
    ELSE 1 + CharsBefore(Tail(s), idx - Utf8Len(Head(s)))

\* str::is_char_boundary
IsCharBoundary(s, idx) ==
    /\ idx <= StrLen(s)
    /\ StrLen(SubSeq(s, 1, CharsBefore(s, idx))) = idx

\* String::insert(idx, ch): panics unless idx is a char boundary
StringInsertPanics(s, idx) == ~IsCharBoundary(s, idx)
StringInsert(s, idx, ch) ==
    LET k == CharsBefore(s, idx)
    IN  SubSeq(s, 1, k) \o <<ch>> \o SubSeq(s, k + 1, Len(s))

\* String::remove(idx): panics unless idx is the offset of a character
StringRemovePanics(s, idx) == idx >= StrLen(s) \/ ~IsCharBoundary(s, idx)
StringRemove(s, idx) ==
    LET k == CharsBefore(s, idx)
    IN  SubSeq(s, 1, k) \o SubSeq(s, k + 2, Len(s))

\* s occurs in text as a contiguous run (str::contains)
Contains(text, s) ==
    \E i \in 1..(Len(text) - Len(s) + 1) : SubSeq(text, i, i + Len(s) - 1) = s

-----------------------------------------------------------------------------
(* Key events (crossterm KeyEvent): a code, the character of Char(c), and  *)
(* whether the CONTROL modifier is held.                                   *)

Key(code, ch, ctrl) == [code |-> code, ch |-> ch, ctrl |-> ctrl]

EditCodes == {"Backspace", "Delete", "Left", "Right", "Home", "End"}
PlainCodes == {"Up", "Down", "Enter", "Esc", "Tab"} \cup EditCodes
MenuChars == {"j", "k", "y", "Y", "n", "N"}

PlainKeys == {Key(code, "", FALSE) : code \in PlainCodes}
CharKeys(chars) == {Key("Char", ch, FALSE) : ch \in chars}
CtrlC == Key("Char", "c", TRUE)

IsCtrlC(k) == k.code = "Char" /\ k.ch = "c" /\ k.ctrl
IsChar(k, chars) == k.code = "Char" /\ k.ch \in chars

-----------------------------------------------------------------------------
(* The line editor: the editing arms of App::handle_create_branch_key and  *)
(* of SetupApp::handle_key_event, which are the same code.  The result     *)
(* carries the buffer, the cursor and whether the arm panicked.            *)

Buffer(text, cur, panicked) == [input |-> text, cursor_position |-> cur, panicked |-> panicked]

EditInsert(text, cur, ch) ==
    IF StringInsertPanics(text, cur) THEN Buffer(text, cur, TRUE)
    ELSE Buffer(StringInsert(text, cur, ch), cur + 1, FALSE)

EditBackspace(text, cur) ==
    IF cur > 0
    THEN IF StringRemovePanics(text, cur - 1) THEN Buffer(text, cur, TRUE)
         ELSE Buffer(StringRemove(text, cur - 1), cur - 1, FALSE)
    ELSE Buffer(text, cur, FALSE)

EditDelete(text, cur) ==
    IF cur < StrLen(text)
    THEN IF StringRemovePanics(text, cur) THEN Buffer(text, cur, TRUE)
         ELSE Buffer(StringRemove(text, cur), cur, FALSE)
    ELSE Buffer(text, cur, FALSE)

EditLeft(text, cur) == Buffer(text, IF cur > 0 THEN cur - 1 ELSE cur, FALSE)

\* EditRight without the clamp at the end of the buffer
EditRight_NoClamp(text, cur) == Buffer(text, cur + 1, FALSE)

EditRight(text, cur) == Buffer(text, IF cur < StrLen(text) THEN cur + 1 ELSE cur, FALSE)

EditHome(text, cur) == Buffer(text, 0, FALSE)

EditEnd(text, cur) == Buffer(text, StrLen(text), FALSE)

EditKey(text, cur, k) ==
    CASE k.code = "Char"      -> EditInsert(text, cur, k.ch)
      [] k.code = "Backspace" -> EditBackspace(text, cur)
      [] k.code = "Delete"    -> EditDelete(text, cur)
      [] k.code = "Left"      -> EditLeft(text, cur)
      [] k.code = "Right"     -> EditRight(text, cur)
      [] k.code = "Home"      -> EditHome(text, cur)
      [] k.code = "End"       -> EditEnd(text, cur)
      [] OTHER                -> Buffer(text, cur, FALSE)

\* the keys that reach an editing arm; typing stops at max characters
EditKeys(text, max) ==
    {Key(code, "", FALSE) : code \in EditCodes}
        \cup (IF Len(text) < max THEN CharKeys(TypedChars) ELSE {})

-----------------------------------------------------------------------------
(* anyhow::Result<T>: Ok(value) or Err(text shown by "{}").                *)

Ok(v) == [ok |-> TRUE, val |-> v, err |-> <<>>]
Err(text) == [ok |-> FALSE, val |-> FALSE, err |-> text]

-----------------------------------------------------------------------------
(* Paths (std::path): whether the path is absolute, and its components.    *)

Path(abs, comps) == [abs |-> abs, comps |-> comps]

\* the components of a text, split at '/'
RECURSIVE SplitSlash(_, _)
SplitSlash(s, cur) ==
    IF s = <<>> THEN (IF cur = <<>> THEN <<>> ELSE <<cur>>)
    ELSE IF Head(s) = "/"
         THEN (IF cur = <<>> THEN <<>> ELSE <<cur>>) \o SplitSlash(Tail(s), <<>>)
         ELSE SplitSlash(Tail(s), Append(cur, Head(s)))

\* PathBuf::from / Path::new
PathFrom(s) == Path(s # <<>> /\ Head(s) = "/", SplitSlash(s, <<>>))

\* Path::is_absolute
IsAbsolute(p) == p.abs

\* Path::join: an absolute argument replaces the base
PathJoin(base, p) == IF p.abs THEN p ELSE Path(base.abs, base.comps \o p.comps)

\* Path::display
RECURSIVE JoinSlash(_)
JoinSlash(comps) ==
    IF comps = <<>> THEN <<>>
    ELSE IF Len(comps) = 1 THEN Head(comps)
    ELSE Head(comps) \o <<"/">> \o JoinSlash(Tail(comps))
PathDisplay(p) == (IF p.abs THEN <<"/">> ELSE <<>>) \o JoinSlash(p.comps)

\* PathStartsWith comparing the texts of the paths (str::starts_with)
PathStartsWith_Textual(p, base) ==
    /\ Len(PathDisplay(base)) <= Len(PathDisplay(p))
    /\ SubSeq(PathDisplay(p), 1, Len(PathDisplay(base))) = PathDisplay(base)

\* Path::starts_with: whole components, never a textual prefix
PathStartsWith(p, base) ==
    /\ p.abs = base.abs
    /\ Len(base.comps) <= Len(p.comps)
    /\ SubSeq(p.comps, 1, Len(base.comps)) = base.comps

\* App.repo_root: the working directory of the repository
repo_root == PathFrom(<<"/", "r">>)

\* the workspace root: the configured path if absolute, else under repo_root
WorkspaceRoot(worktree_path) ==
    IF IsAbsolute(PathFrom(worktree_path)) THEN PathFrom(worktree_path)
    ELSE PathJoin(repo_root, PathFrom(worktree_path))

-----------------------------------------------------------------------------
(* `git worktree list --porcelain`: what the command can print.  A line is *)
(* its keyword prefix and the rest of the line.                            *)

Line(prefix, rest) == [prefix |-> prefix, rest |-> rest]

WorktreeLine(text) == Line("worktree ", text)
BranchLine(name) == Line("branch refs/heads/", name)
HeadLine == Line("HEAD ", <<"0">>)
DetachedLine == Line("detached", <<>>)
BlankLine == Line("", <<>>)

\* str::starts_with on a line
LineStartsWith(line, pat) ==
    \/ pat = "worktree " /\ line.prefix = "worktree "
    \/ pat = "branch " /\ line.prefix = "branch refs/heads/"

\* str::trim_start_matches on a line
TrimStartMatches(line, pat) == IF line.prefix = pat THEN line.rest ELSE <<>>

MainRecord == <<WorktreeLine(<<"/", "r">>), HeadLine, BranchLine(<<"m">>), BlankLine>>
Record(text, name) == <<WorktreeLine(text), HeadLine, BranchLine(name), BlankLine>>
DetachedRecord(text) == <<WorktreeLine(text), HeadLine, DetachedLine, BlankLine>>

\* the listings the model lets git print: the main worktree alone; or with
\* it a detached worktree, a worktree of the sibling directory cc and two
\* worktrees of the directory c, one of them nested deeper
PorcelainOutputs ==
    { MainRecord,
      MainRecord \o DetachedRecord(<<"/", "r", "/", "c", "/", "d">>)
                 \o Record(<<"/", "r", "/", "c", "c", "/", "s">>, <<"s">>)
                 \o Record(<<"/", "r", "/", "c", "/", "y">>, <<"y">>)
                 \o Record(<<"/", "r", "/", "c", "/", "n", "/", "z">>, <<"z">>) }

\* what running the command gives: it could not be spawned, it exited
\* with a failure status, or it printed stdout
ListRuns ==
    {[spawned |-> FALSE, success |-> FALSE, stdout |-> <<>>],
     [spawned |-> TRUE, success |-> FALSE, stdout |-> <<>>]}
        \cup {[spawned |-> TRUE, success |-> TRUE, stdout |-> out] : out \in PorcelainOutputs}

\* the locals the loop of load_branches changes
Locals(current_worktree_path, branches) ==
    [current_worktree_path |-> current_worktree_path, branches |-> branches]

\* ParseLine leaving current_worktree_path as it is after a branch line
ParseLine_KeepsPending(line, worktree_path, current_worktree_path, branches) ==
    IF LineStartsWith(line, "worktree ")
    THEN Locals(Some(PathFrom(TrimStartMatches(line, "worktree "))), branches)
    ELSE IF LineStartsWith(line, "branch ")
    THEN Locals(current_worktree_path,
                IF /\ IsSome(current_worktree_path)
                   /\ PathStartsWith(Unwrap(current_worktree_path), worktree_path)
                THEN Append(branches, TrimStartMatches(line, "branch refs/heads/"))
                ELSE branches)
    ELSE Locals(current_worktree_path, branches)

\* the body of the loop over stdout.lines() of load_branches, for one line
ParseLine(line, worktree_path, current_worktree_path, branches) ==
    IF LineStartsWith(line, "worktree ")
    THEN Locals(Some(PathFrom(TrimStartMatches(line, "worktree "))), branches)
    ELSE IF LineStartsWith(line, "branch ")
    THEN Locals(None,
                IF /\ IsSome(current_worktree_path)
                   /\ PathStartsWith(Unwrap(current_worktree_path), worktree_path)
                THEN Append(branches, TrimStartMatches(line, "branch refs/heads/"))
                ELSE branches)
    ELSE Locals(current_worktree_path, branches)

\* the loop over stdout.lines() of load_branches
RECURSIVE ParseLines(_, _, _, _)
ParseLines(lines, worktree_path, current_worktree_path, acc) ==
    IF lines = <<>> THEN acc
    ELSE LET l == ParseLine(Head(lines), worktree_path, current_worktree_path, acc)
         IN  ParseLines(Tail(lines), worktree_path, l.current_worktree_path, l.branches)

\* App::load_branches: Ok(the new App.branches) or the error it returns
load_branches(run, cfg) ==
    IF ~run.spawned THEN Err(<<"Failed to execute git worktree list">>)
    ELSE IF ~run.success THEN Err(<<"Failed to list worktrees">>)
    ELSE [ok |-> TRUE, val |-> ParseLines(run.stdout, WorkspaceRoot(cfg), None, <<>>),
          err |-> <<>>]

-----------------------------------------------------------------------------
(* `git worktree add -b <branch> <path>` and `git worktree remove <path>`. *)

\* what running a command gives: it could not be spawned, it succeeded, or
\* it exited with a failure status and one of the stderr texts
CommandRuns(stderrs) ==
    {[spawned |-> FALSE, success |-> FALSE, stderr |-> <<>>],
     [spawned |-> TRUE, success |-> TRUE, stderr |-> <<>>]}
        \cup {[spawned |-> TRUE, success |-> FALSE, stderr |-> e] : e \in stderrs}

\* what git writes to stderr when `worktree add -b name` fails
AddStderrs(name) == { <<"fatal: a branch named '">> \o name \o <<"' already exists">> }

\* what git writes to stderr when `worktree remove path` fails
RemoveStderrs(path) ==
    { <<"fatal: '">> \o PathDisplay(path) \o <<"' is not a working tree">>,
      <<"fatal: not a git repository">> }

\* the path App::create_worktree hands to git for the branch typed
CreatePath(cfg, name) == PathJoin(WorkspaceRoot(cfg), PathFrom(name))

\* App::create_worktree
create_worktree(run) ==
    IF ~run.spawned THEN Err(<<"Failed to execute git worktree add">>)
    ELSE IF ~run.success THEN Err(<<"git worktree add failed: ">> \o run.stderr)
    ELSE Ok(TRUE)

\* the path App::delete_worktree hands to git for a branch
DeletePath(cfg, branch_name) == PathJoin(WorkspaceRoot(cfg), PathFrom(branch_name))

\* App::delete_worktree
delete_worktree(run) ==
    IF ~run.spawned THEN Err(<<"Failed to execute git worktree remove">>)
    ELSE IF ~run.success THEN Err(<<"git worktree remove failed: ">> \o run.stderr)
    ELSE Ok(TRUE)

-----------------------------------------------------------------------------
(* git2: what the repository holds for a branch when is_branch_in_sync     *)
(* looks.  upstream is "none" (no upstream configured), "error" (the       *)
(* lookup failed for another reason) or "found".                           *)

RepoViews ==
    [opens : BOOLEAN, branch_found : BOOLEAN, local_target : BOOLEAN,
     upstream : {"none", "error", "found"}, upstream_target : BOOLEAN,
     same_oid : BOOLEAN]

\* is_branch_in_sync taking a branch without upstream for out of sync
is_branch_in_sync_NoUpstreamDiffers(view) ==
    IF ~view.opens THEN Err(<<"could not find repository">>)
    ELSE IF ~view.branch_found THEN Err(<<"cannot locate local branch">>)
    ELSE IF ~view.local_target THEN Err(<<"Failed to get local branch target">>)
    ELSE IF view.upstream # "found" THEN Ok(FALSE)
    ELSE IF ~view.upstream_target THEN Err(<<"Failed to get upstream branch target">>)
    ELSE Ok(view.same_oid)

\* App::is_branch_in_sync
is_branch_in_sync(view) ==
    IF ~view.opens THEN Err(<<"could not find repository">>)
    ELSE IF ~view.branch_found THEN Err(<<"cannot locate local branch">>)
    ELSE IF ~view.local_target THEN Err(<<"Failed to get local branch target">>)
    ELSE IF view.upstream # "found" THEN Ok(TRUE)
    ELSE IF ~view.upstream_target THEN Err(<<"Failed to get upstream branch target">>)
    ELSE Ok(view.same_oid)

\* a gateway invocation as the loop iteration issued it
Call(op, arg, path, result) == [op |-> op, arg |-> arg, path |-> path, result |-> result]

-----------------------------------------------------------------------------
(* The main menu. *)

\* MainMenu.items
items == <<"Create new branch", "Delete a branch", "Exit">>

\* MainMenu::next
MenuNext(selected) == (selected + 1) % Len(items)

\* MainMenu::previous stopping at the first item
MenuPrevious_NoWrap(selected) == IF selected > 0 THEN selected - 1 ELSE 0

\* MainMenu::previous
MenuPrevious(selected) == IF selected > 0 THEN selected - 1 ELSE Len(items) - 1

-----------------------------------------------------------------------------
(* App and its key handlers.  A handler maps the App, the key and the      *)
(* answer the gateway gives if it is asked to an outcome: the App after    *)
(* the handler, its Result<bool>, the gateway invocations it issued, and   *)
(* whether it panicked (the App is then left as it was).                   *)

\* App::new
App_new(worktree_path) ==
    [screen |-> "MainMenu",
     main_menu_selected |-> 0,
     input |-> <<>>,
     cursor_position |-> 0,
     config |-> worktree_path,
     branches |-> <<>>,
     selected_branch |-> 0,
     message |-> None,
     confirm_delete |-> FALSE,
     branch_out_of_sync |-> FALSE]

Outcome(a, result, invoked) == [app |-> a, result |-> result, calls |-> invoked, panicked |-> FALSE]
Continue(a) == Outcome(a, Ok(FALSE), <<>>)
Panic(a) == [app |-> a, result |-> Ok(FALSE), calls |-> <<>>, panicked |-> TRUE]

\* MainMenuEnterDelete entering DeleteBranch with the selection of the last visit
MainMenuEnterDelete_KeepsSelection(a, run) ==
    LET r == load_branches(run, a.config)
        invoked == <<Call("list", <<>>, WorkspaceRoot(a.config), r)>>
    IN  IF ~r.ok THEN Outcome(a, Err(r.err), invoked)
        ELSE IF r.val = <<>>
        THEN Outcome([a EXCEPT !.branches = r.val,
                               !.message = Some(<<"No branches with worktrees found">>)],
                     Ok(FALSE), invoked)
        ELSE Outcome([a EXCEPT !.branches = r.val, !.screen = "DeleteBranch",
                               !.message = None],
                     Ok(FALSE), invoked)

\* MainMenuEnterDelete showing the list it holds, if it holds one, without
\* loading it again
MainMenuEnterDelete_ReusesList(a, run) ==
    IF a.branches # <<>>
    THEN Continue([a EXCEPT !.screen = "DeleteBranch", !.selected_branch = 0,
                            !.message = None])
    ELSE LET r == load_branches(run, a.config)
             invoked == <<Call("list", <<>>, WorkspaceRoot(a.config), r)>>
         IN  IF ~r.ok THEN Outcome(a, Err(r.err), invoked)
             ELSE IF r.val = <<>>
             THEN Outcome([a EXCEPT !.branches = r.val,
                                    !.message = Some(<<"No branches with worktrees found">>)],
                          Ok(FALSE), invoked)
             ELSE Outcome([a EXCEPT !.branches = r.val, !.screen = "DeleteBranch",
                                    !.selected_branch = 0, !.message = None],
                          Ok(FALSE), invoked)

\* MainMenuEnterDelete entering DeleteBranch with an empty list too
MainMenuEnterDelete_ShowsEmptyList(a, run) ==
    LET r == load_branches(run, a.config)
        invoked == <<Call("list", <<>>, WorkspaceRoot(a.config), r)>>
    IN  IF ~r.ok THEN Outcome(a, Err(r.err), invoked)
        ELSE Outcome([a EXCEPT !.branches = r.val, !.screen = "DeleteBranch",
                               !.selected_branch = 0, !.message = None],
                     Ok(FALSE), invoked)

\* handle_main_menu_key, Enter with selection 1: load_branches()?, then
\* DeleteBranch unless the list is empty
MainMenuEnterDelete(a, run) ==
    LET r == load_branches(run, a.config)
        invoked == <<Call("list", <<>>, WorkspaceRoot(a.config), r)>>
    IN  IF ~r.ok THEN Outcome(a, Err(r.err), invoked)
        ELSE IF r.val = <<>>
        THEN Outcome([a EXCEPT !.branches = r.val,
                               !.message = Some(<<"No branches with worktrees found">>)],
                     Ok(FALSE), invoked)
        ELSE Outcome([a EXCEPT !.branches = r.val, !.screen = "DeleteBranch",
                               !.selected_branch = 0, !.message = None],
                     Ok(FALSE), invoked)

\* handle_main_menu_key with Down passing over "Delete a branch" while the
\* list it holds is empty
handle_main_menu_key_SkipsDelete(a, k, run) ==
    CASE k.code = "Up" \/ IsChar(k, {"k"}) ->
            Continue([a EXCEPT !.main_menu_selected = MenuPrevious(@)])
      [] k.code = "Down" \/ IsChar(k, {"j"}) ->
            Continue([a EXCEPT !.main_menu_selected =
                          IF MenuNext(@) = 1 /\ a.branches = <<>> THEN MenuNext(MenuNext(@))
                          ELSE MenuNext(@)])
      [] k.code = "Enter" /\ a.main_menu_selected = 0 ->
            Continue([a EXCEPT !.screen = "CreateBranch", !.input = <<>>,
                               !.cursor_position = 0, !.message = None])
      [] k.code = "Enter" /\ a.main_menu_selected = 1 -> MainMenuEnterDelete(a, run)
      [] k.code = "Enter" /\ a.main_menu_selected = 2 -> Outcome(a, Ok(TRUE), <<>>)
      [] OTHER -> Continue(a)

\* handle_main_menu_key opening CreateBranch without clearing the message
handle_main_menu_key_KeepsMessage(a, k, run) ==
    CASE k.code = "Up" \/ IsChar(k, {"k"}) ->
            Continue([a EXCEPT !.main_menu_selected = MenuPrevious(@)])
      [] k.code = "Down" \/ IsChar(k, {"j"}) ->
            Continue([a EXCEPT !.main_menu_selected = MenuNext(@)])
      [] k.code = "Enter" /\ a.main_menu_selected = 0 ->
            Continue([a EXCEPT !.screen = "CreateBranch", !.input = <<>>,
                               !.cursor_position = 0])
      [] k.code = "Enter" /\ a.main_menu_selected = 1 -> MainMenuEnterDelete(a, run)
      [] k.code = "Enter" /\ a.main_menu_selected = 2 -> Outcome(a, Ok(TRUE), <<>>)
      [] OTHER -> Continue(a)

\* App::handle_main_menu_key; run is what `git worktree list` does if it is run
handle_main_menu_key(a, k, run) ==
    CASE k.code = "Up" \/ IsChar(k, {"k"}) ->
            Continue([a EXCEPT !.main_menu_selected = MenuPrevious(@)])
      [] k.code = "Down" \/ IsChar(k, {"j"}) ->
            Continue([a EXCEPT !.main_menu_selected = MenuNext(@)])
      [] k.code = "Enter" /\ a.main_menu_selected = 0 ->
            Continue([a EXCEPT !.screen = "CreateBranch", !.input = <<>>,
                               !.cursor_position = 0, !.message = None])
      [] k.code = "Enter" /\ a.main_menu_selected = 1 -> MainMenuEnterDelete(a, run)
      [] k.code = "Enter" /\ a.main_menu_selected = 2 -> Outcome(a, Ok(TRUE), <<>>)
      [] OTHER -> Continue(a)

\* CreateBranchEnter clearing the input before it formats the success message
CreateBranchEnter_ClearsFirst(a, run) ==
    IF a.input # <<>>
    THEN LET r == create_worktree(run)
             invoked == <<Call("create", a.input, CreatePath(a.config, a.input), r)>>
         IN  IF r.ok
             THEN Outcome([a EXCEPT !.message =
                                Some(<<"Successfully created worktree for branch '">>
                                     \o <<>> \o <<"'">>),
                              !.input = <<>>, !.cursor_position = 0],
                          Ok(FALSE), invoked)
             ELSE Outcome([a EXCEPT !.message = Some(<<"Error: ">> \o r.err)],
                          Ok(FALSE), invoked)
    ELSE Continue(a)

\* CreateBranchEnter clearing the input when create_worktree fails too
CreateBranchEnter_ClearsOnError(a, run) ==
    IF a.input # <<>>
    THEN LET r == create_worktree(run)
             invoked == <<Call("create", a.input, CreatePath(a.config, a.input), r)>>
         IN  Outcome([a EXCEPT !.message =
                          IF r.ok
                          THEN Some(<<"Successfully created worktree for branch '">>
                                    \o a.input \o <<"'">>)
                          ELSE Some(<<"Error: ">> \o r.err),
                        !.input = <<>>, !.cursor_position = 0],
                     Ok(FALSE), invoked)
    ELSE Continue(a)

\* CreateBranchEnter calling create_worktree whatever the input holds
CreateBranchEnter_NoEmptyCheck(a, run) ==
    LET r == create_worktree(run)
        invoked == <<Call("create", a.input, CreatePath(a.config, a.input), r)>>
    IN  IF r.ok
        THEN Outcome([a EXCEPT !.message =
                           Some(<<"Successfully created worktree for branch '">>
                                \o a.input \o <<"'">>),
                         !.input = <<>>, !.cursor_position = 0],
                     Ok(FALSE), invoked)
        ELSE Outcome([a EXCEPT !.message = Some(<<"Error: ">> \o r.err)],
                     Ok(FALSE), invoked)

\* handle_create_branch_key, Enter: create_worktree when the input is not empty
CreateBranchEnter(a, run) ==
    IF a.input # <<>>
    THEN LET r == create_worktree(run)
             invoked == <<Call("create", a.input, CreatePath(a.config, a.input), r)>>
         IN  IF r.ok
             THEN Outcome([a EXCEPT !.message =
                                Some(<<"Successfully created worktree for branch '">>
                                     \o a.input \o <<"'">>),
                              !.input = <<>>, !.cursor_position = 0],
                          Ok(FALSE), invoked)
             ELSE Outcome([a EXCEPT !.message = Some(<<"Error: ">> \o r.err)],
                          Ok(FALSE), invoked)
    ELSE Continue(a)

\* App::handle_create_branch_key; run is what `git worktree add` does if it is run
handle_create_branch_key(a, k, run) ==
    CASE k.code = "Esc" ->
            Continue([a EXCEPT !.screen = "MainMenu", !.message = None])
      [] k.code = "Enter" -> CreateBranchEnter(a, run)
      [] k.code \in {"Char"} \cup EditCodes ->
            LET b == EditKey(a.input, a.cursor_position, k)
            IN  IF b.panicked THEN Panic(a)
                ELSE Continue([a EXCEPT !.input = b.input,
                                        !.cursor_position = b.cursor_position])
      [] OTHER -> Continue(a)

\* DeleteBranchEnter leaving branch_out_of_sync as the last choice set it
DeleteBranchEnter_KeepsFlag(a, view) ==
    IF a.selected_branch >= Len(a.branches) THEN Panic(a)
    ELSE LET branch_name == a.branches[a.selected_branch + 1]
             r == is_branch_in_sync(view)
             invoked == <<Call("is_in_sync", branch_name, repo_root, r)>>
         IN  IF ~r.ok THEN Outcome(a, Err(r.err), invoked)
             ELSE Outcome([a EXCEPT !.screen = "ConfirmDelete", !.confirm_delete = FALSE],
                          Ok(FALSE), invoked)

\* DeleteBranchEnter going to ConfirmDelete without asking is_branch_in_sync
DeleteBranchEnter_NoQuery(a, view) ==
    IF a.selected_branch >= Len(a.branches) THEN Panic(a)
    ELSE Continue([a EXCEPT !.branch_out_of_sync = FALSE, !.screen = "ConfirmDelete",
                            !.confirm_delete = FALSE])

\* handle_delete_branch_key, Enter: is_branch_in_sync(..)? for the selected
\* branch, then ConfirmDelete; branches[selected_branch] panics out of range
DeleteBranchEnter(a, view) ==
    IF a.selected_branch >= Len(a.branches) THEN Panic(a)
    ELSE LET branch_name == a.branches[a.selected_branch + 1]
             r == is_branch_in_sync(view)
             invoked == <<Call("is_in_sync", branch_name, repo_root, r)>>
         IN  IF ~r.ok THEN Outcome(a, Err(r.err), invoked)
             ELSE Outcome([a EXCEPT !.branch_out_of_sync = ~r.val,
                                    !.screen = "ConfirmDelete",
                                    !.confirm_delete = FALSE],
                          Ok(FALSE), invoked)

\* App::handle_delete_branch_key; view is what git2 finds if it is asked.
\* On an empty list `len() - 1` overflows and `% len()` divides by zero.
handle_delete_branch_key(a, k, view) ==
    CASE k.code = "Esc" ->
            Continue([a EXCEPT !.screen = "MainMenu", !.message = None])
      [] k.code = "Up" \/ IsChar(k, {"k"}) ->
            IF a.selected_branch > 0
            THEN Continue([a EXCEPT !.selected_branch = @ - 1])
            ELSE IF Len(a.branches) = 0 THEN Panic(a)
            ELSE Continue([a EXCEPT !.selected_branch = Len(a.branches) - 1])
      [] k.code = "Down" \/ IsChar(k, {"j"}) ->
            IF Len(a.branches) = 0 THEN Panic(a)
            ELSE Continue([a EXCEPT !.selected_branch = (@ + 1) % Len(a.branches)])
      [] k.code = "Enter" -> DeleteBranchEnter(a, view)
      [] OTHER -> Continue(a)

\* ConfirmDeleteCancel also resetting the selection of the delete list
ConfirmDeleteCancel_ResetsSelection(a) ==
    Continue([a EXCEPT !.screen = "DeleteBranch", !.selected_branch = 0])

\* handle_confirm_delete_key, Esc and Char('n') | Char('N')
ConfirmDeleteCancel(a) == Continue([a EXCEPT !.screen = "DeleteBranch"])

\* ConfirmDeleteYes staying in ConfirmDelete when delete_worktree fails
ConfirmDeleteYes_StaysOnError(a, run) ==
    IF a.selected_branch >= Len(a.branches) THEN Panic(a)
    ELSE LET branch_name == a.branches[a.selected_branch + 1]
             r == delete_worktree(run)
             invoked == <<Call("remove", branch_name, DeletePath(a.config, branch_name), r)>>
         IN  IF r.ok
             THEN Outcome([a EXCEPT !.message =
                                Some(<<"Successfully deleted worktree for branch '">>
                                     \o branch_name \o <<"'">>),
                              !.screen = "MainMenu"],
                          Ok(FALSE), invoked)
             ELSE Outcome([a EXCEPT !.message = Some(<<"Error: ">> \o r.err)],
                          Ok(FALSE), invoked)

\* handle_confirm_delete_key, Char('y') | Char('Y'): delete_worktree for the
\* selected branch; branches[selected_branch] panics out of range
ConfirmDeleteYes(a, run) ==
    IF a.selected_branch >= Len(a.branches) THEN Panic(a)
    ELSE LET branch_name == a.branches[a.selected_branch + 1]
             r == delete_worktree(run)
             invoked == <<Call("remove", branch_name, DeletePath(a.config, branch_name), r)>>
         IN  IF r.ok
             THEN Outcome([a EXCEPT !.message =
                                Some(<<"Successfully deleted worktree for branch '">>
                                     \o branch_name \o <<"'">>),
                              !.screen = "MainMenu"],
                          Ok(FALSE), invoked)
             ELSE Outcome([a EXCEPT !.message = Some(<<"Error: ">> \o r.err),
                                    !.screen = "MainMenu"],
                          Ok(FALSE), invoked)

\* App::handle_confirm_delete_key; run is what `git worktree remove` does if it is run
handle_confirm_delete_key(a, k, run) ==
    CASE k.code = "Esc" -> ConfirmDeleteCancel(a)
      [] IsChar(k, {"y", "Y"}) -> ConfirmDeleteYes(a, run)
      [] IsChar(k, {"n", "N"}) -> ConfirmDeleteCancel(a)
      [] OTHER -> Continue(a)

\* handle_key_event issuing a gateway call a second time when it has failed
handle_key_event_Retries(a, k, answer) ==
    LET o == CASE a.screen = "MainMenu"      -> handle_main_menu_key(a, k, answer)
               [] a.screen = "CreateBranch"  -> handle_create_branch_key(a, k, answer)
               [] a.screen = "DeleteBranch"  -> handle_delete_branch_key(a, k, answer)
               [] a.screen = "ConfirmDelete" -> handle_confirm_delete_key(a, k, answer)
    IN  IF o.calls # <<>> /\ ~o.calls[1].result.ok
        THEN [o EXCEPT !.calls = o.calls \o o.calls]
        ELSE o

\* App::handle_key_event
handle_key_event(a, k, answer) ==
    CASE a.screen = "MainMenu"      -> handle_main_menu_key(a, k, answer)
      [] a.screen = "CreateBranch"  -> handle_create_branch_key(a, k, answer)
      [] a.screen = "DeleteBranch"  -> handle_delete_branch_key(a, k, answer)
      [] a.screen = "ConfirmDelete" -> handle_confirm_delete_key(a, k, answer)

\* whether the handler of key k reads self.branches (its emptiness, its
\* length or an element): line 120 after load_branches()? has returned Ok,
\* lines 205, 209 and 212 in DeleteBranch, line 228 in ConfirmDelete
BranchesReadBy(a, k, answer) ==
    CASE a.screen = "MainMenu" ->
            /\ k.code = "Enter" /\ a.main_menu_selected = 1
            /\ load_branches(answer, a.config).ok
      [] a.screen = "CreateBranch" -> FALSE
      [] a.screen = "DeleteBranch" ->
            \/ (k.code = "Up" \/ IsChar(k, {"k"})) /\ a.selected_branch = 0
            \/ k.code = "Down" \/ IsChar(k, {"j"})
            \/ k.code = "Enter"
      [] a.screen = "ConfirmDelete" -> IsChar(k, {"y", "Y"})

\* whether the draw closure of run_app reads app.branches: the list of
\* DeleteBranch (line 670) and the name shown by ConfirmDelete (line 698)
DrawReadsBranches(a) == a.screen \in {"DeleteBranch", "ConfirmDelete"}

\* run_app after terminal.draw: read the key, break on Ctrl+C, else dispatch
\* it; the outcome carries where the process is afterwards.  The next
\* frame's draw closure indexes app.branches[app.selected_branch] in
\* ConfirmDelete.
DrawPanics(a) == a.screen = "ConfirmDelete" /\ a.selected_branch >= Len(a.branches)

\* run_app handing Ctrl+C to the screen handler like any other key
run_app_DispatchesCtrlC(a, k, answer) ==
    LET o == handle_key_event(a, k, answer)
    IN  [app |-> o.app,
         calls |-> o.calls,
         pc |-> IF o.panicked THEN "panicked"
                ELSE IF ~o.result.ok THEN "failed"
                ELSE IF o.result.val THEN "exited"
                ELSE IF DrawPanics(o.app) THEN "panicked"
                ELSE "main"]

run_app(a, k, answer) ==
    IF IsCtrlC(k) THEN [app |-> a, pc |-> "interrupted", calls |-> <<>>]
    ELSE LET o == handle_key_event(a, k, answer)
         IN  [app |-> o.app,
              calls |-> o.calls,
              pc |-> IF o.panicked THEN "panicked"
                     ELSE IF ~o.result.ok THEN "failed"      \* handle_key_event(key)?
                     ELSE IF o.result.val THEN "exited"      \* break
                     ELSE IF DrawPanics(o.app) THEN "panicked"
                     ELSE "main"]

-----------------------------------------------------------------------------
(* The setup flow. *)

\* SetupApp::new
SetupApp_new == [input |-> <<>>, cursor_position |-> 0]

\* SetupApp::handle_key_event: the SetupApp afterwards, the bool returned,
\* and whether it panicked
SetupApp_handle_key_event(s, k) ==
    IF k.code = "Enter" THEN [setup |-> s, done |-> TRUE, panicked |-> FALSE]
    ELSE LET b == EditKey(s.input, s.cursor_position, k)
         IN  IF b.panicked THEN [setup |-> s, done |-> FALSE, panicked |-> TRUE]
             ELSE [setup |-> [input |-> b.input, cursor_position |-> b.cursor_position],
                   done |-> FALSE, panicked |-> FALSE]

\* run_tui_setup ending on Enter whatever the input holds
run_tui_setup_AcceptsEmpty(s, k) ==
    IF k.code = "Esc" \/ IsCtrlC(k) THEN [setup |-> s, pc |-> "cancelled"]
    ELSE LET o == SetupApp_handle_key_event(s, k)
         IN  [setup |-> o.setup,
              pc |-> IF o.panicked THEN "panicked"
                     ELSE IF o.done THEN "done"
                     ELSE "setup"]

\* one iteration of the loop of run_tui_setup: "cancelled" (the closure
\* returns Err("Setup cancelled by user")), "done" (the
\* closure returns Ok), "panicked" or "setup" (the loop goes on)
run_tui_setup(s, k) ==
    IF k.code = "Esc" \/ IsCtrlC(k) THEN [setup |-> s, pc |-> "cancelled"]
    ELSE LET o == SetupApp_handle_key_event(s, k)
         IN  [setup |-> o.setup,
              pc |-> IF o.panicked THEN "panicked"
                     ELSE IF o.done /\ o.setup.input # <<>> THEN "done"
                     ELSE "setup"]

-----------------------------------------------------------------------------
(* The environment: the keys the user presses and the answers of git.      *)

AllKeys == PlainKeys \cup CharKeys(TypedChars \cup MenuChars) \cup {CtrlC}

\* the keys pressed in the setup flow; typing stops at MaxSetupInput characters
SetupKeys(s) ==
    PlainKeys \cup {CtrlC}
        \cup (IF Len(s.input) < MaxSetupInput THEN CharKeys(TypedChars) ELSE {})

\* the keys pressed in the main interface; in CreateBranch typing stops at
\* MaxInput characters and the characters typed are those of TypedChars
AppKeys(a) ==
    PlainKeys \cup {CtrlC}
        \cup (IF a.screen # "CreateBranch" THEN CharKeys(TypedChars \cup MenuChars)
              ELSE IF Len(a.input) < MaxInput THEN CharKeys(TypedChars) ELSE {})

NoAnswer == [none |-> TRUE]

\* no SetupApp, no App: before they are built and after they are dropped
NoSetup == [input |-> <<>>]
NoApp == [screen |-> "none"]

\* load_branches not followed line by line
NoLoad == [rest |-> <<>>]

\* what the gateway can answer to the one invocation key k may cause
GatewayAnswers(a, k) ==
    CASE a.screen = "MainMenu" /\ k.code = "Enter" -> ListRuns
      [] a.screen = "CreateBranch" /\ k.code = "Enter" -> CommandRuns(AddStderrs(a.input))
      [] a.screen = "DeleteBranch" /\ k.code = "Enter" -> RepoViews
      [] a.screen = "ConfirmDelete" /\ k.code = "Char" ->
            CommandRuns(IF a.selected_branch < Len(a.branches)
                        THEN RemoveStderrs(DeletePath(a.config, a.branches[a.selected_branch + 1]))
                        ELSE {})
      [] OTHER -> {NoAnswer}

-----------------------------------------------------------------------------
(* Start of the process: main() with the config file present or absent.    *)

\* the worktree_path an existing .gitsy.toml can hold
StoredPaths == {<<"c">>}

Init ==
    /\ config_file \in {None} \cup {Some(p) : p \in StoredPaths}
    /\ pc = IF IsSome(config_file) THEN "main" ELSE "setup"
    /\ setup = IF IsSome(config_file) THEN NoSetup ELSE SetupApp_new
    /\ app = IF IsSome(config_file) THEN App_new(Unwrap(config_file)) ELSE NoApp
    /\ sync_query = None
    /\ since_list = None
    /\ load = NoLoad

\* a key event in the setup flow.  When the flow is done,
\* load_or_create_config saves the config (which can fail) and main starts
\* the main interface with it.
SetupKey ==
    /\ pc = "setup"
    /\ \E k \in SetupKeys(setup) :
        \E o \in {run_tui_setup(setup, k)} :
        /\ setup' = IF o.pc = "setup" THEN o.setup ELSE NoSetup
        /\ IF o.pc = "done"
           THEN \E saved \in BOOLEAN :
                    IF saved
                    THEN /\ config_file' = Some(o.setup.input)
                         /\ app' = App_new(o.setup.input)
                         /\ pc' = "main"
                    ELSE /\ pc' = "save_failed"
                         /\ UNCHANGED <<config_file, app>>
           ELSE /\ pc' = o.pc
                /\ UNCHANGED <<config_file, app>>
    /\ UNCHANGED <<sync_query, since_list, load>>

\* the is_in_sync answer standing after a loop iteration: a successful query
\* sets it; a list or remove invocation, a change of the selected branch or
\* of the branch list withdraws it
SyncAfter(a, o) ==
    IF o.calls # <<>> /\ o.calls[1].op = "is_in_sync"
    THEN IF o.calls[1].result.ok
         THEN Some([branch |-> o.calls[1].arg, in_sync |-> o.calls[1].result.val])
         ELSE None
    ELSE IF o.calls # <<>> /\ o.calls[1].op \in {"list", "remove"} THEN None
    ELSE IF o.app.selected_branch # a.selected_branch \/ o.app.branches # a.branches THEN None
    ELSE sync_query

\* the screens that show the delete list
ListScreens == {"DeleteBranch", "ConfirmDelete"}

\* since_list after the gateway invocations of a loop iteration, in their
\* order: a list call starts it anew, a create or remove call marks it
RECURSIVE SinceListCalls(_, _)
SinceListCalls(calls, s) ==
    IF calls = <<>> THEN s
    ELSE SinceListCalls(Tail(calls),
             IF Head(calls).op = "list" THEN [listed |-> TRUE, changed |-> FALSE]
             ELSE IF Head(calls).op \in {"create", "remove"} THEN [s EXCEPT !.changed = TRUE]
             ELSE s)

\* since_list after a loop iteration.  It is kept while the delete list is on
\* screen; a step that brings the list on screen without a list call finds
\* a list that no call of the step loaded.
SinceListAfter(a, o) ==
    IF o.app.screen \notin ListScreens THEN None
    ELSE Some(SinceListCalls(o.calls,
                  IF a.screen \in ListScreens /\ IsSome(since_list) THEN Unwrap(since_list)
                  ELSE [listed |-> FALSE, changed |-> FALSE]))

\* one iteration of the loop of run_app that reads key k, the gateway
\* answering with answer if it is asked; the App is dropped when the loop ends
AppKey(k, answer) ==
    \E o \in {run_app(app, k, answer)} :
    /\ app' = IF o.pc = "main" THEN o.app ELSE NoApp
    /\ pc' = o.pc
    /\ sync_query' = IF o.pc = "main" THEN SyncAfter(app, o) ELSE None
    /\ since_list' = IF o.pc = "main" THEN SinceListAfter(app, o) ELSE None
    /\ UNCHANGED <<config_file, setup, load>>

\* a key event while the screen is MainMenu
MainMenuKey ==
    /\ pc = "main" /\ app.screen = "MainMenu"
    /\ \E k \in AppKeys(app) : \E answer \in GatewayAnswers(app, k) : AppKey(k, answer)

\* a key event while the screen is CreateBranch
CreateBranchKey ==
    /\ pc = "main" /\ app.screen = "CreateBranch"
    /\ \E k \in AppKeys(app) : \E answer \in GatewayAnswers(app, k) : AppKey(k, answer)

\* a key event while the screen is DeleteBranch
DeleteBranchKey ==
    /\ pc = "main" /\ app.screen = "DeleteBranch"
    /\ \E k \in AppKeys(app) : \E answer \in GatewayAnswers(app, k) : AppKey(k, answer)

\* a key event while the screen is ConfirmDelete
ConfirmDeleteKey ==
    /\ pc = "main" /\ app.screen = "ConfirmDelete"
    /\ \E k \in AppKeys(app) : \E answer \in GatewayAnswers(app, k) : AppKey(k, answer)

Next ==
    \/ SetupKey
    \/ MainMenuKey
    \/ CreateBranchKey
    \/ DeleteBranchKey
    \/ ConfirmDeleteKey

Spec == Init /\ [][Next]_vars

-----------------------------------------------------------------------------
(* load_branches followed line by line: git has printed a listing and       *)
(* every step takes one line of stdout.lines() through the body of the loop. *)

\* what git prints for a worktree after the main one: a detached worktree
\* in the directory c, a worktree of the sibling directory cc, worktrees
\* in c and deeper in c, a worktree that is the directory c itself, and a
\* branch line that follows no worktree line
ParseBlocks ==
    { DetachedRecord(<<"/", "r", "/", "c", "/", "d">>),
      Record(<<"/", "r", "/", "c", "c", "/", "s">>, <<"s">>),
      Record(<<"/", "r", "/", "c", "/", "y">>, <<"y">>),
      Record(<<"/", "r", "/", "c", "/", "n", "/", "z">>, <<"z">>),
      Record(<<"/", "r", "/", "c">>, <<"w">>),
      <<BranchLine(<<"o">>), BlankLine>> }

\* the listings of at most n blocks
RECURSIVE Listings(_)
Listings(n) ==
    IF n = 0 THEN {<<>>}
    ELSE Listings(n - 1) \cup {l \o b : l \in Listings(n - 1), b \in ParseBlocks}

\* the stdout of `git worktree list --porcelain`: the main worktree first
ParseOutputs == {MainRecord \o l : l \in Listings(MaxRecords)}

\* the worktree_path of the config: relative, absolute, and the sibling directory
ParseConfigs == {<<"c">>, <<"/", "r", "/", "c">>, <<"c", "c">>}

ParseInit ==
    /\ pc = "load_branches"
    /\ config_file \in {Some(c) : c \in ParseConfigs}
    /\ setup = NoSetup
    /\ app = App_new(Unwrap(config_file))
    /\ sync_query = None
    /\ since_list = None
    /\ load \in {[stdout |-> out, rest |-> out, current_worktree_path |-> None,
                   branches |-> <<>>] : out \in ParseOutputs}

\* one pass through the body of the loop
LoadLine ==
    LET l == ParseLine(Head(load.rest), WorkspaceRoot(app.config),
                       load.current_worktree_path, load.branches)
    IN  /\ load' = [load EXCEPT !.rest = Tail(@),
                                 !.current_worktree_path = l.current_worktree_path,
                                 !.branches = l.branches]
        /\ UNCHANGED <<pc, config_file, setup, app, sync_query, since_list>>

\* the arm of a line that starts with "worktree "
LoadWorktreeLine ==
    /\ pc = "load_branches" /\ load.rest # <<>>
    /\ LineStartsWith(Head(load.rest), "worktree ")
    /\ LoadLine

\* the arm of a line that starts with "branch "
LoadBranchLine ==
    /\ pc = "load_branches" /\ load.rest # <<>>
    /\ ~LineStartsWith(Head(load.rest), "worktree ")
    /\ LineStartsWith(Head(load.rest), "branch ")
    /\ LoadLine

\* any other line
LoadOtherLine ==
    /\ pc = "load_branches" /\ load.rest # <<>>
    /\ ~LineStartsWith(Head(load.rest), "worktree ")
    /\ ~LineStartsWith(Head(load.rest), "branch ")
    /\ LoadLine

\* the end of the loop: self.branches = branches
LoadReturn ==
    /\ pc = "load_branches" /\ load.rest = <<>>
    /\ app' = [app EXCEPT !.branches = load.branches]
    /\ pc' = "loaded"
    /\ UNCHANGED <<config_file, setup, sync_query, since_list, load>>

ParseNext ==
    \/ LoadWorktreeLine
    \/ LoadBranchLine
    \/ LoadOtherLine
    \/ LoadReturn

ParseSpec == ParseInit /\ [][ParseNext]_vars

-----------------------------------------------------------------------------
(* Properties.  A property of a key handler is stated in every reachable    *)
(* state of the main interface, for every key and every answer of the       *)
(* gateway: o is what the handler makes of them.                            *)

Running == pc = "main"
InScreen(scr) == pc = "main" /\ app.screen = scr
EnterKey == Key("Enter", "", FALSE)
EscKey == Key("Esc", "", FALSE)
CharKey(ch) == Key("Char", ch, FALSE)

\* the gateway invocation of an outcome failed
GatewayFailed(o) == o.calls # <<>> /\ ~o.calls[1].result.ok

\* the branch selected in the delete list
SelectedBranch == app.branches[app.selected_branch + 1]

\* C1: whenever the gateway call issued by a key handler fails, whatever the
\* screen and the operation, the handler returns Ok, the failure is in the
\* status message and the loop of run_app goes on.
C1_GatewayFailureBecomesMessage ==
    Running =>
        \A k \in AllKeys : \A answer \in GatewayAnswers(app, k) :
            \A o \in {handle_key_event(app, k, answer)} :
            GatewayFailed(o) =>
                /\ o.result.ok
                /\ o.app.message = Some(<<"Error: ">> \o o.calls[1].result.err)
                /\ run_app(app, k, answer).pc = "main"

\* C2: the cursor of the input buffer, in CreateBranch and in the setup flow,
\* is at least 0 and at most the length of the buffer (String::len) in every
\* state the editing operations reach, and after every editing key that can
\* follow.
CursorInBuffer(text, cur) == 0 <= cur /\ cur <= StrLen(text)
EditingKeys == {Key(code, "", FALSE) : code \in EditCodes} \cup CharKeys(TypedChars)
C2_CursorWithinBuffer ==
    /\ pc = "setup" =>
        /\ CursorInBuffer(setup.input, setup.cursor_position)
        /\ \A k \in EditingKeys :
            \A o \in {SetupApp_handle_key_event(setup, k)} :
            CursorInBuffer(o.setup.input, o.setup.cursor_position)
    /\ Running => CursorInBuffer(app.input, app.cursor_position)
    /\ InScreen("CreateBranch") =>
        \A k \in EditingKeys :
            \A o \in {handle_key_event(app, k, NoAnswer)} :
            CursorInBuffer(o.app.input, o.app.cursor_position)

\* C2 witness: in CreateBranch the buffer holds a two-byte character and the
\* cursor stands at its end, byte 3 of "cE".
C2_Witness ==
    /\ InScreen("CreateBranch")
    /\ app.input = <<"c", "E">>
    /\ app.cursor_position = 3

\* C3: remove(b) is issued only from ConfirmDelete on y/Y, for the selected
\* branch b, and with a successful is_in_sync(b) answer standing: no change of
\* the selection, no reload of the list and no other remove since that query.
C3_RemoveFollowsSyncQuery ==
    Running =>
        \A k \in AllKeys : \A answer \in GatewayAnswers(app, k) :
            \A o \in {run_app(app, k, answer)} :
            \A i \in 1..Len(o.calls) :
                o.calls[i].op = "remove" =>
                    /\ app.screen = "ConfirmDelete"
                    /\ IsChar(k, {"y", "Y"})
                    /\ app.selected_branch < Len(app.branches)
                    /\ o.calls[i].arg = SelectedBranch
                    /\ IsSome(sync_query)
                    /\ Unwrap(sync_query).branch = o.calls[i].arg

\* C3 witness: a remove has been issued and has succeeded.
C3_Witness ==
    /\ InScreen("MainMenu")
    /\ IsSome(app.message)
    /\ Head(Unwrap(app.message)) = "Successfully deleted worktree for branch '"

\* C4 as claimed: in ConfirmDelete y or Y calls remove(b) exactly once, the
\* next screen is MainMenu and, whether remove succeeds or fails, the status
\* message references b.
C4_MessageAlwaysNamesBranch ==
    InScreen("ConfirmDelete") =>
        \A k \in {CharKey("y"), CharKey("Y")} : \A answer \in GatewayAnswers(app, k) :
            \A o \in {handle_key_event(app, k, answer)} :
            /\ Len(o.calls) = 1
            /\ o.calls[1].op = "remove" /\ o.calls[1].arg = SelectedBranch
            /\ o.app.screen = "MainMenu"
            /\ IsSome(o.app.message)
            /\ Contains(Unwrap(o.app.message), SelectedBranch)

\* C4 amended: in ConfirmDelete y or Y calls remove(b) exactly once and the
\* next screen is MainMenu; when remove succeeds the status message references
\* b, when it fails the status message is "Error: " and the failure text of
\* the gateway, whatever that text names.
C4_RemoveOutcomeMessage ==
    InScreen("ConfirmDelete") =>
        \A k \in {CharKey("y"), CharKey("Y")} : \A answer \in GatewayAnswers(app, k) :
            \A o \in {handle_key_event(app, k, answer)} :
            /\ Len(o.calls) = 1
            /\ o.calls[1].op = "remove" /\ o.calls[1].arg = SelectedBranch
            /\ o.result = Ok(FALSE) /\ ~o.panicked
            /\ o.app.screen = "MainMenu"
            /\ IsSome(o.app.message)
            /\ IF answer.spawned /\ answer.success
               THEN Contains(Unwrap(o.app.message), SelectedBranch)
               ELSE /\ Head(Unwrap(o.app.message)) = "Error: "
                    /\ Tail(Unwrap(o.app.message)) = o.calls[1].result.err
                    /\ Contains(Unwrap(o.app.message), answer.stderr)

\* C4 witness: a remove has failed and the message does not name a branch of
\* the list.
C4_Witness ==
    /\ InScreen("MainMenu")
    /\ app.message = Some(<<"Error: ", "git worktree remove failed: ",
                            "fatal: not a git repository">>)
    /\ app.branches # <<>>

\* C5: in ConfirmDelete n, N and Esc lead to DeleteBranch, call no gateway
\* operation and change nothing else of the App: branch list, selected branch,
\* status message, menu selection and input buffer stay as they are.
C5_CancelChangesOnlyScreen ==
    InScreen("ConfirmDelete") =>
        \A k \in {CharKey("n"), CharKey("N"), EscKey} : \A answer \in GatewayAnswers(app, k) :
            \A o \in {handle_key_event(app, k, answer)} :
            /\ o.calls = <<>>
            /\ o.result = Ok(FALSE) /\ ~o.panicked
            /\ o.app.screen = "DeleteBranch"
            /\ o.app.branches = app.branches
            /\ o.app.selected_branch = app.selected_branch
            /\ o.app.message = app.message
            /\ o.app.main_menu_selected = app.main_menu_selected
            /\ o.app.input = app.input
            /\ o.app.cursor_position = app.cursor_position
            /\ run_app(app, k, answer).pc = "main"

\* C5 witness: back in DeleteBranch after a cancelled confirmation, the second
\* branch of the list still selected.
C5_Witness ==
    /\ InScreen("DeleteBranch")
    /\ IsSome(sync_query)
    /\ app.selected_branch = 1

\* C6: in DeleteBranch with a non-empty list Enter asks is_in_sync for the
\* selected branch and, given its answer, moves to ConfirmDelete with
\* branch_out_of_sync the negation of the answer; and in every ConfirmDelete
\* state branch_out_of_sync is the negated answer of the query made for the
\* branch now selected.
C6_OutOfSyncIsFreshAnswer ==
    /\ InScreen("DeleteBranch") /\ app.branches # <<>> =>
        \A view \in GatewayAnswers(app, EnterKey) :
            \A o \in {handle_key_event(app, EnterKey, view)} :
            /\ Len(o.calls) = 1
            /\ o.calls[1].op = "is_in_sync" /\ o.calls[1].arg = SelectedBranch
            /\ o.calls[1].result = is_branch_in_sync(view)
            /\ o.calls[1].result.ok =>
                /\ o.app.screen = "ConfirmDelete"
                /\ o.app.branch_out_of_sync = ~o.calls[1].result.val
                /\ o.app.selected_branch = app.selected_branch
                /\ o.app.branches = app.branches
    /\ InScreen("ConfirmDelete") =>
        /\ IsSome(sync_query)
        /\ app.selected_branch < Len(app.branches)
        /\ Unwrap(sync_query).branch = SelectedBranch
        /\ app.branch_out_of_sync = ~Unwrap(sync_query).in_sync

\* C6 witness: ConfirmDelete for the second branch, found out of sync.
C6_Witness ==
    /\ InScreen("ConfirmDelete")
    /\ app.selected_branch = 1
    /\ app.branch_out_of_sync

\* C7: in CreateBranch with a non-empty input s, Enter with a create that
\* succeeds sets a status message containing s, clears the input, puts the
\* cursor at 0 and stays in CreateBranch.
C7_CreateSuccessClearsInput ==
    InScreen("CreateBranch") /\ app.input # <<>> =>
        \A run \in GatewayAnswers(app, EnterKey) :
            \A o \in {handle_key_event(app, EnterKey, run)} :
            run.spawned /\ run.success =>
                /\ Len(o.calls) = 1
                /\ o.calls[1].op = "create" /\ o.calls[1].arg = app.input
                /\ IsSome(o.app.message)
                /\ Contains(Unwrap(o.app.message), app.input)
                /\ o.app.input = <<>>
                /\ o.app.cursor_position = 0
                /\ o.app.screen = "CreateBranch"
                /\ run_app(app, EnterKey, run).pc = "main"

\* C7 witness: CreateBranch after a successful create, the buffer empty again.
C7_Witness ==
    /\ InScreen("CreateBranch")
    /\ app.input = <<>>
    /\ IsSome(app.message)
    /\ Head(Unwrap(app.message)) = "Successfully created worktree for branch '"

\* C8: in CreateBranch with a non-empty input, Enter with a create that fails
\* sets the status message "Error: " followed by the failure text of the
\* gateway (with the stderr of git when git ran), and input, cursor and
\* screen stay as they are.
C8_CreateFailureKeepsInput ==
    InScreen("CreateBranch") /\ app.input # <<>> =>
        \A run \in GatewayAnswers(app, EnterKey) :
            \A o \in {handle_key_event(app, EnterKey, run)} :
            ~(run.spawned /\ run.success) =>
                /\ Len(o.calls) = 1
                /\ o.calls[1].op = "create" /\ ~o.calls[1].result.ok
                /\ IsSome(o.app.message)
                /\ Head(Unwrap(o.app.message)) = "Error: "
                /\ Tail(Unwrap(o.app.message)) = o.calls[1].result.err
                /\ run.spawned => /\ run.stderr # <<>>
                                  /\ Contains(Unwrap(o.app.message), run.stderr)
                /\ o.app.input = app.input
                /\ o.app.cursor_position = app.cursor_position
                /\ o.app.screen = "CreateBranch"
                /\ run_app(app, EnterKey, run).pc = "main"

\* C8 witness: CreateBranch after a failed create, the name still in the buffer.
C8_Witness ==
    /\ InScreen("CreateBranch")
    /\ app.input = <<"c", "E">>
    /\ IsSome(app.message)
    /\ Head(Unwrap(app.message)) = "Error: "
    /\ Contains(Unwrap(app.message), <<"fatal: a branch named '", "c", "E", "' already exists">>)

\* C9: in MainMenu with selection 1, Enter lists the branches through the
\* gateway; given the list loaded, the App holds it, and if it is empty the
\* screen stays MainMenu with the message "No branches with worktrees found",
\* else the screen is DeleteBranch with selected branch 0 and no message.
C9_EnterDeleteLoadsBranches ==
    InScreen("MainMenu") /\ app.main_menu_selected = 1 =>
        \A run \in GatewayAnswers(app, EnterKey) :
            \A o \in {handle_key_event(app, EnterKey, run)} :
            \A listed \in {ParseLines(run.stdout, WorkspaceRoot(app.config), None, <<>>)} :
                /\ Len(o.calls) = 1
                /\ o.calls[1].op = "list"
                /\ run.spawned /\ run.success =>
                    /\ o.app.branches = listed
                    /\ IF listed = <<>>
                       THEN /\ o.app.screen = "MainMenu"
                            /\ o.app.message = Some(<<"No branches with worktrees found">>)
                       ELSE /\ o.app.screen = "DeleteBranch"
                            /\ o.app.selected_branch = 0
                            /\ o.app.message = None

\* C9 witnesses: MainMenu after an empty list was loaded over an earlier one.
C9_Witness ==
    /\ InScreen("MainMenu")
    /\ app.message = Some(<<"No branches with worktrees found">>)
    /\ app.branches = <<>>
    /\ app.selected_branch = 1

\* C10: from every selection of the main menu, Up then Down and Down then Up
\* (k, j alike) come back to it; Down from the last item selects the first and
\* Up from the first selects the last.
MenuAfter(a, k) == handle_main_menu_key(a, k, NoAnswer).app
C10_MenuIsCyclic ==
    InScreen("MainMenu") =>
        /\ app.main_menu_selected < Len(items)
        /\ \A up \in {Key("Up", "", FALSE), CharKey("k")} :
           \A down \in {Key("Down", "", FALSE), CharKey("j")} :
            /\ MenuAfter(MenuAfter(app, up), down) = app
            /\ MenuAfter(MenuAfter(app, down), up) = app
            /\ app.main_menu_selected = Len(items) - 1 =>
                    MenuAfter(app, down).main_menu_selected = 0
            /\ app.main_menu_selected = 0 =>
                    MenuAfter(app, up).main_menu_selected = Len(items) - 1

\* C10 witness: the last item selected with the list unvisited, as Up from
\* the first item leaves it.
C10_Witness ==
    /\ InScreen("MainMenu")
    /\ app.main_menu_selected = 2
    /\ app.branches = <<>>
    /\ app.message = None

-----------------------------------------------------------------------------
(* Properties of load_branches, over the listing it parses.                  *)

IsWorktreeLine(l) == l.prefix = "worktree "
IsBranchLine(l) == l.prefix = "branch refs/heads/"

\* the lines the loop has taken so far
Consumed == SubSeq(load.stdout, 1, Len(load.stdout) - Len(load.rest))

\* path p is the directory root or lies below it
IsWithin(p, root) ==
    /\ p.abs = root.abs
    /\ \E n \in 0..Len(p.comps) : SubSeq(p.comps, 1, n) = root.comps

\* the text of p begins with the text of root
SharesTextPrefix(p, root) ==
    \E n \in 0..Len(PathDisplay(p)) : SubSeq(PathDisplay(p), 1, n) = PathDisplay(root)

\* the worktree line that line i of L belongs to: the last worktree line
\* before it, unless a branch line already followed that one
Owner(L, i) ==
    {j \in 1..(i - 1) :
        /\ IsWorktreeLine(L[j])
        /\ \A m \in (j + 1)..(i - 1) : ~IsWorktreeLine(L[m]) /\ ~IsBranchLine(L[m])}

\* line i of L is a branch line of a worktree within root
Counted(L, root, i) ==
    /\ IsBranchLine(L[i])
    /\ \E j \in Owner(L, i) : IsWithin(PathFrom(L[j].rest), root)

\* the worktree records of L that have a branch line and lie within root
CountedRecords(L, root) ==
    {j \in 1..Len(L) :
        /\ IsWorktreeLine(L[j])
        /\ IsWithin(PathFrom(L[j].rest), root)
        /\ \E i \in (j + 1)..Len(L) : IsBranchLine(L[i]) /\ j \in Owner(L, i)}

\* the branch names of the counted lines among the first i of L, in their order
RECURSIVE Entries(_, _, _)
Entries(L, root, i) ==
    IF i = 0 THEN <<>>
    ELSE Entries(L, root, i - 1) \o (IF Counted(L, root, i) THEN <<L[i].rest>> ELSE <<>>)

Pending(L) ==
    {j \in 1..Len(L) :
        /\ IsWorktreeLine(L[j])
        /\ \A m \in (j + 1)..Len(L) : ~IsWorktreeLine(L[m]) /\ ~IsBranchLine(L[m])}

\* C12: all through the loop the pending path is that of the most recent
\* worktree line, and only while no branch line has followed it; a branch
\* line adds its name for the pending path alone and ends the pending, a
\* branch line with nothing pending adds nothing, and a worktree line adds
\* nothing, so a record left without a branch line yields no entry and
\* hands its path to no later branch line.
C12_BranchLineBelongsToLastWorktreeLine ==
    pc \in {"load_branches", "loaded"} =>
        LET L == Consumed
            root == WorkspaceRoot(app.config)
        IN  /\ Cardinality(Pending(L)) <= 1
            /\ Pending(L) = {} => load.current_worktree_path = None
            /\ \A j \in Pending(L) :
                    load.current_worktree_path = Some(PathFrom(L[j].rest))
            /\ load.branches = Entries(L, root, Len(L))
            /\ load.rest # <<>> =>
                LET line == Head(load.rest)
                    l == ParseLine(line, root, load.current_worktree_path, load.branches)
                IN  /\ IsBranchLine(line) =>
                        /\ l.current_worktree_path = None
                        /\ l.branches =
                              IF \E j \in Pending(L) : IsWithin(PathFrom(L[j].rest), root)
                              THEN Append(load.branches, line.rest)
                              ELSE load.branches
                    /\ IsWorktreeLine(line) =>
                        /\ l.current_worktree_path = Some(PathFrom(line.rest))
                        /\ l.branches = load.branches
                    /\ ~IsBranchLine(line) /\ ~IsWorktreeLine(line) =>
                        l = Locals(load.current_worktree_path, load.branches)

\* C12 witness: a detached worktree, then a worktree with its branch, then a
\* branch line with nothing pending: one entry.
C12_Witness ==
    /\ pc = "loaded"
    /\ app.config = <<"c">>
    /\ load.stdout = MainRecord \o DetachedRecord(<<"/", "r", "/", "c", "/", "d">>)
                                \o Record(<<"/", "r", "/", "c", "/", "y">>, <<"y">>)
                                \o <<BranchLine(<<"o">>), BlankLine>>
    /\ app.branches = << <<"y">> >>

-----------------------------------------------------------------------------
(* Properties of is_branch_in_sync, over what git2 finds when Enter in      *)
(* DeleteBranch asks it.                                                     *)

\* the local branch exists and points to a commit
LocalBranchExists(view) == view.opens /\ view.branch_found /\ view.local_target

\* the answer Enter in DeleteBranch gets from is_in_sync when git2 finds view
SyncAnswer(view) == handle_key_event(app, EnterKey, view).calls[1].result

\* C13: for an existing local branch is_in_sync answers true when no upstream
\* is configured, true when the upstream exists and both point to the same
\* commit, false when the upstream exists and they point to different commits.
C13_InSyncAnswers ==
    InScreen("DeleteBranch") /\ app.selected_branch < Len(app.branches) =>
        \A view \in GatewayAnswers(app, EnterKey) :
            LocalBranchExists(view) =>
                /\ view.upstream = "none" => SyncAnswer(view) = Ok(TRUE)
                /\ view.upstream = "found" /\ view.upstream_target /\ view.same_oid =>
                        SyncAnswer(view) = Ok(TRUE)
                /\ view.upstream = "found" /\ view.upstream_target /\ ~view.same_oid =>
                        SyncAnswer(view) = Ok(FALSE)

\* C13 witness: ConfirmDelete for the first branch, answered in sync.
C13_Witness ==
    /\ InScreen("ConfirmDelete")
    /\ app.selected_branch = 0
    /\ ~app.branch_out_of_sync
    /\ sync_query = Some([branch |-> app.branches[1], in_sync |-> TRUE])

\* C14: for an existing local branch is_in_sync returns an error when the
\* lookup of the upstream fails for another reason than that none is
\* configured; it answers true without an upstream only when none is
\* configured.
C14_UpstreamErrorIsReturned ==
    InScreen("DeleteBranch") /\ app.selected_branch < Len(app.branches) =>
        \A view \in GatewayAnswers(app, EnterKey) :
            LocalBranchExists(view) =>
                /\ view.upstream = "error" => ~SyncAnswer(view).ok
                /\ view.upstream # "found" /\ SyncAnswer(view) = Ok(TRUE) =>
                        view.upstream = "none"

-----------------------------------------------------------------------------
(* Properties of the loop of run_app.                                        *)

\* C15: in every state of the main interface, whatever the screen, Ctrl+C
\* ends the loop in that iteration and is not handed to the screen handler:
\* no gateway call is issued and the App, its input buffer included, is as
\* it was, while the screen handler would have acted on Char('c') in
\* CreateBranch.
C15_CtrlCEndsLoop ==
    Running =>
        /\ app.screen \in {"MainMenu", "CreateBranch", "DeleteBranch", "ConfirmDelete"}
        /\ \A answer \in GatewayAnswers(app, CtrlC) :
            \A o \in {run_app(app, CtrlC, answer)} :
            /\ o.pc = "interrupted"
            /\ o.calls = <<>>
            /\ o.app = app
        /\ InScreen("CreateBranch") /\ IsCharBoundary(app.input, app.cursor_position) =>
                handle_key_event(app, CtrlC, NoAnswer).app.input # app.input

\* C15 witness: the loop has ended on Ctrl+C.
C15_Witness ==
    /\ pc = "interrupted"
    /\ app = NoApp
    /\ IsSome(config_file)

\* C16: the delete list is never on screen stale by the program's own calls.
\* A loop iteration that brings DeleteBranch or ConfirmDelete on screen from
\* another screen starts in MainMenu, issues one list call and shows the list
\* that call loaded; y or Y in ConfirmDelete leads to MainMenu; an iteration
\* that issues a create or remove call does not end with the list on screen;
\* so whenever DeleteBranch or ConfirmDelete is on screen, a list call loaded
\* the list and no create or remove call was issued since.
C16_DeleteListIsFresh ==
    Running =>
        /\ \A k \in AllKeys : \A answer \in GatewayAnswers(app, k) :
            \A o \in {run_app(app, k, answer)} :
            o.pc = "main" =>
                /\ app.screen \notin ListScreens /\ o.app.screen \in ListScreens =>
                    /\ app.screen = "MainMenu"
                    /\ o.app.screen = "DeleteBranch"
                    /\ Len(o.calls) = 1
                    /\ o.calls[1].op = "list" /\ o.calls[1].result.ok
                    /\ o.app.branches = o.calls[1].result.val
                /\ app.screen = "ConfirmDelete" /\ IsChar(k, {"y", "Y"}) =>
                    o.app.screen = "MainMenu"
                /\ (\E i \in 1..Len(o.calls) : o.calls[i].op \in {"create", "remove"}) =>
                    o.app.screen \notin ListScreens
        /\ app.screen \in ListScreens =>
            since_list = Some([listed |-> TRUE, changed |-> FALSE])

\* C16 witness: DeleteBranch is on screen with a list just loaded, the
\* out-of-sync flag of an earlier confirmation still set.
C16_Witness ==
    /\ InScreen("DeleteBranch")
    /\ app.selected_branch = 0
    /\ app.branch_out_of_sync
    /\ since_list = Some([listed |-> TRUE, changed |-> FALSE])

-----------------------------------------------------------------------------
(* Where the branch list is read.                                            *)

\* branch lists the App could hold instead of the one it holds
OtherBranches == { <<>>, << <<"s">>, <<"y">>, <<"z">> >> }

\* the outcome o of key k does not depend on the branch list held before it:
\* with any other list it is the same, but for a list left untouched
IgnoresBranches(a, k, answer, o) ==
    \A b \in OtherBranches :
        \A ob \in {handle_key_event([a EXCEPT !.branches = b], k, answer)} :
            /\ ob.result = o.result /\ ob.calls = o.calls /\ ob.panicked = o.panicked
            /\ [ob.app EXCEPT !.branches = <<>>] = [o.app EXCEPT !.branches = <<>>]
            /\ \/ ob.app.branches = o.app.branches
               \/ ob.app.branches = b /\ o.app.branches = a.branches

\* C17 as claimed: while the screen is MainMenu or CreateBranch no key handler
\* and no render step reads the branch list, be it its contents, its length
\* or its emptiness.
C17_NoReadOutsideDeleteScreens ==
    Running /\ app.screen \in {"MainMenu", "CreateBranch"} =>
        /\ ~DrawReadsBranches(app)
        /\ \A k \in AllKeys : \A answer \in GatewayAnswers(app, k) :
                ~BranchesReadBy(app, k, answer)

\* C17 amended: while the screen is MainMenu or CreateBranch no render step
\* reads the branch list, and the one key handler that reads it is Enter on
\* "Delete a branch" in MainMenu, which reads the emptiness of the list its
\* own list call has just loaded; no outcome depends on the list held before
\* the key.
C17_ReadsOnlyFreshListOutsideDeleteScreens ==
    Running /\ app.screen \in {"MainMenu", "CreateBranch"} =>
        /\ ~DrawReadsBranches(app)
        /\ \A k \in AllKeys : \A answer \in GatewayAnswers(app, k) :
            \A o \in {handle_key_event(app, k, answer)} :
            /\ IgnoresBranches(app, k, answer, o)
            /\ BranchesReadBy(app, k, answer) =>
                /\ app.screen = "MainMenu"
                /\ k.code = "Enter" /\ app.main_menu_selected = 1
                /\ Len(o.calls) = 1
                /\ o.calls[1].op = "list" /\ o.calls[1].result.ok
                /\ o.app.branches = o.calls[1].result.val
                /\ o.app.screen = "MainMenu" <=> o.app.branches = <<>>

\* C17 witness: MainMenu after Enter on "Delete a branch" found the list it
\* had just loaded empty, the first use of the list.
C17_Witness ==
    /\ InScreen("MainMenu")
    /\ app.main_menu_selected = 1
    /\ app.message = Some(<<"No branches with worktrees found">>)
    /\ app.branches = <<>>
    /\ app.selected_branch = 0
    /\ ~app.branch_out_of_sync

-----------------------------------------------------------------------------
(* Properties of the start of the process.                                   *)

\* what holds in every state of a start without config file
SetupStates ==
    /\ pc = "setup" =>
        /\ config_file = None /\ app = NoApp
        /\ \A k \in AllKeys :
            \A o \in {run_tui_setup(setup, k)} :
            /\ o.pc = "done" => k.code = "Enter" /\ setup.input # <<>> /\ o.setup = setup
            /\ k.code = "Enter" /\ setup.input = <<>> => o.pc = "setup" /\ o.setup = setup
            /\ k.code = "Esc" \/ IsCtrlC(k) => o.pc = "cancelled"
    /\ pc \in {"cancelled", "save_failed"} => config_file = None /\ app = NoApp
    /\ pc = "main" => config_file = Some(app.config)

\* what holds of every step of the setup flow
SetupSteps ==
    /\ pc = "setup" /\ pc' = "main" =>
        /\ setup.input # <<>>
        /\ run_tui_setup(setup, EnterKey).pc = "done"
        /\ config_file' = Some(setup.input)
        /\ app' = App_new(setup.input)
    /\ pc = "setup" /\ pc' # "main" => config_file' = None /\ app' = NoApp
    /\ pc \in {"cancelled", "save_failed"} => UNCHANGED vars

\* C18: started without config file, the process shows the main interface
\* only by a step of the setup flow in which Enter is pressed on a non-empty
\* input and that input is saved as worktree_path, the main interface using
\* what was saved; Enter on an empty input leaves the setup flow as it is;
\* Esc and Ctrl+C end the process as cancelled, with no config saved and the
\* main interface never shown.
C18_SetupBeforeMain == [](SetupStates) /\ [][SetupSteps]_vars

\* C18 witness: the main interface runs with the path typed in the setup flow,
\* now in the config file.
C18_Witness ==
    /\ pc = "main"
    /\ config_file = Some(<<"E">>)
    /\ app.config = <<"E">>
    /\ app.screen = "MainMenu"

-----------------------------------------------------------------------------
(* Properties of the line editor.                                            *)

\* text2 is text with character ch put in at byte offset cur
InsertedAt(text2, text, cur, ch) ==
    \E n \in 0..Len(text) :
        /\ StrLen(SubSeq(text, 1, n)) = cur
        /\ text2 = SubSeq(text, 1, n) \o <<ch>> \o SubSeq(text, n + 1, Len(text))

\* C19: in every buffer state the setup flow and CreateBranch reach, typing a
\* character, of one byte or more, does not abort the program, puts the
\* character in at the cursor and moves the cursor on by exactly one.
C19_InsertNeverAborts ==
    /\ pc = "setup" =>
        \A ch \in TypedChars :
            \A o \in {SetupApp_handle_key_event(setup, CharKey(ch))} :
            /\ ~o.panicked
            /\ run_tui_setup(setup, CharKey(ch)).pc = "setup"
            /\ InsertedAt(o.setup.input, setup.input, setup.cursor_position, ch)
            /\ o.setup.cursor_position = setup.cursor_position + 1
    /\ InScreen("CreateBranch") =>
        \A ch \in TypedChars :
            \A o \in {handle_key_event(app, CharKey(ch), NoAnswer)} :
            /\ ~o.panicked
            /\ run_app(app, CharKey(ch), NoAnswer).pc = "main"
            /\ InsertedAt(o.app.input, app.input, app.cursor_position, ch)
            /\ o.app.cursor_position = app.cursor_position + 1

-----------------------------------------------------------------------------
(* Properties of the gateway invocations.                                    *)

\* the gateway operation a key can start in a state of the main interface
CallOf(a, k) ==
    CASE a.screen = "MainMenu" /\ k.code = "Enter" /\ a.main_menu_selected = 1 -> "list"
      [] a.screen = "CreateBranch" /\ k.code = "Enter" /\ a.input # <<>> -> "create"
      [] a.screen = "DeleteBranch" /\ k.code = "Enter" -> "is_in_sync"
      [] a.screen = "ConfirmDelete" /\ IsChar(k, {"y", "Y"}) -> "remove"
      [] OTHER -> "none"

\* C20: a loop iteration issues at most one gateway call, and the call has
\* returned when the handler returns: its result is part of the outcome and
\* the loop reads the next key only then.  A call that failed is not issued
\* again in the iteration; the failure is in the message or ends the loop,
\* and only a key that starts the operation issues it anew.
C20_OneCallPerKey ==
    Running =>
        \A k \in AllKeys : \A answer \in GatewayAnswers(app, k) :
            \A o \in {handle_key_event(app, k, answer)} :
            /\ Len(o.calls) <= 1
            /\ o.calls # <<>> => o.calls[1].op = CallOf(app, k)
            /\ o.calls = <<>> => CallOf(app, k) = "none" \/ o.panicked
            /\ GatewayFailed(o) =>
                \/ ~o.result.ok /\ o.result.err = o.calls[1].result.err
                \/ o.app.message = Some(<<"Error: ">> \o o.calls[1].result.err)

\* C20 witness: CreateBranch after git could not be run for the name typed:
\* the failure is shown and the name is kept for the user to try again.
C20_Witness ==
    /\ InScreen("CreateBranch")
    /\ app.input = <<"c">>
    /\ app.cursor_position = 1
    /\ app.message = Some(<<"Error: ", "Failed to execute git worktree add">>)

\* the character of text that holds byte b (bytes are counted from 0)
CharHolding(text, b) ==
    {n \in 1..Len(text) :
        StrLen(SubSeq(text, 1, n - 1)) <= b /\ b < StrLen(SubSeq(text, 1, n))}

\* text2 is text without its character n
RemovedAt(text2, text, n) == text2 = SubSeq(text, 1, n - 1) \o SubSeq(text, n + 1, Len(text))

\* what C21 asks of the buffer b2 an editing key makes of text and cur
EditorContract(text, cur, k, b2) ==
    /\ ~b2.panicked
    /\ k.code = "Backspace" =>
        IF cur = 0 THEN b2.input = text /\ b2.cursor_position = cur
        ELSE /\ \E n \in CharHolding(text, cur - 1) : RemovedAt(b2.input, text, n)
             /\ b2.cursor_position = cur - 1
    /\ k.code = "Delete" =>
        IF cur >= StrLen(text) THEN b2.input = text /\ b2.cursor_position = cur
        ELSE /\ \E n \in CharHolding(text, cur) : RemovedAt(b2.input, text, n)
             /\ b2.cursor_position = cur
    /\ k.code = "Left" =>
        b2.input = text /\ b2.cursor_position = (IF cur = 0 THEN 0 ELSE cur - 1)
    /\ k.code = "Right" =>
        b2.input = text /\ b2.cursor_position = (IF cur >= StrLen(text) THEN cur ELSE cur + 1)
    /\ k.code = "Home" => b2.input = text /\ b2.cursor_position = 0
    /\ k.code = "End" => b2.input = text /\ b2.cursor_position = StrLen(text)

\* C21: in every buffer state the setup flow and CreateBranch reach, Backspace
\* at cursor 0 and Delete at the end change nothing; otherwise Backspace
\* removes exactly the character before the cursor and moves the cursor back
\* by one, Delete removes exactly the character at the cursor and leaves the
\* cursor; Left and Right leave the text and stop at 0 and at the length;
\* Home and End put the cursor at 0 and at the length; none aborts the
\* program.
C21_EditingKeys ==
    /\ pc = "setup" =>
        \A k \in {Key(code, "", FALSE) : code \in EditCodes} :
            \A o \in {SetupApp_handle_key_event(setup, k)} :
                /\ ~o.done
                /\ EditorContract(setup.input, setup.cursor_position, k,
                                  Buffer(o.setup.input, o.setup.cursor_position, o.panicked))
    /\ InScreen("CreateBranch") =>
        \A k \in {Key(code, "", FALSE) : code \in EditCodes} :
            \A o \in {handle_key_event(app, k, NoAnswer)} :
                /\ o.calls = <<>>
                /\ [o.app EXCEPT !.input = app.input,
                                  !.cursor_position = app.cursor_position] = app
                /\ EditorContract(app.input, app.cursor_position, k,
                                  Buffer(o.app.input, o.app.cursor_position, o.panicked))

-----------------------------------------------------------------------------
(* Properties of the screens.                                                *)

\* C22: in CreateBranch with an empty input, Enter issues no gateway call and
\* leaves the App as it is, screen, input, cursor, status message and branch
\* list included, whatever git would answer; and no key in any state issues
\* a create call with an empty branch name.
C22_EnterOnEmptyInput ==
    /\ InScreen("CreateBranch") /\ app.input = <<>> =>
        \A run \in CommandRuns(AddStderrs(app.input)) :
            \A o \in {handle_key_event(app, EnterKey, run)} :
                /\ o.calls = <<>>
                /\ o.app = app
                /\ o.result = Ok(FALSE) /\ ~o.panicked
                /\ run_app(app, EnterKey, run).pc = "main"
    /\ Running =>
        \A k \in AllKeys : \A answer \in GatewayAnswers(app, k) :
            \A o \in {handle_key_event(app, k, answer)} :
                \A i \in 1..Len(o.calls) :
                    o.calls[i].op = "create" =>
                        /\ o.calls[i].arg # <<>>
                        /\ o.calls[i].arg = app.input
                        /\ app.screen = "CreateBranch"

\* C22 witness: CreateBranch with an empty input, no message and a branch
\* list loaded on an earlier visit to the delete list.
C22_Witness ==
    /\ InScreen("CreateBranch")
    /\ app.input = <<>>
    /\ app.cursor_position = 0
    /\ app.message = None
    /\ app.branches # <<>>

\* C23: in every state of the main interface the menu selection is smaller
\* than the number of menu items; while DeleteBranch or ConfirmDelete is on
\* screen the branch list is not empty and the selected branch index is
\* smaller than its length, and then no key, Up, Down, Enter and y included,
\* makes a handler index out of range or divide by zero, nor does the next
\* draw of ConfirmDelete.
C23_SelectionsInRange ==
    Running =>
        /\ app.main_menu_selected < Len(items)
        /\ app.screen \in ListScreens =>
            /\ app.branches # <<>>
            /\ app.selected_branch < Len(app.branches)
            /\ ~DrawPanics(app)
            /\ \A k \in AllKeys : \A answer \in GatewayAnswers(app, k) :
                \A o \in {handle_key_event(app, k, answer)} :
                    /\ ~o.panicked
                    /\ ~DrawPanics(o.app)
                    /\ o.app.main_menu_selected < Len(items)
                    /\ o.app.screen \in ListScreens =>
                            o.app.selected_branch < Len(o.app.branches)

\* C23 witness: the last branch of the list selected in DeleteBranch, as Up
\* from the first leaves it, before any confirmation.
C23_Witness ==
    /\ InScreen("DeleteBranch")
    /\ Len(app.branches) = 2
    /\ app.selected_branch = Len(app.branches) - 1
    /\ sync_query = None
    /\ ~app.branch_out_of_sync

\* C24: the status message is cleared by every transition that starts a new
\* task: whatever the key and the gateway answer, a step from MainMenu to
\* CreateBranch or to DeleteBranch leaves no message, and Esc in CreateBranch
\* or DeleteBranch returns to MainMenu with no message; so no state with
\* DeleteBranch or ConfirmDelete on screen has a message, and CreateBranch is
\* never entered with the message of an earlier create or delete.
C24_MessageClearedOnNewTask ==
    Running =>
        /\ app.screen \in ListScreens => app.message = None
        /\ app.screen = "MainMenu" =>
            \A k \in AllKeys : \A answer \in GatewayAnswers(app, k) :
                \A o \in {handle_key_event(app, k, answer)} :
                    o.app.screen \in {"CreateBranch", "DeleteBranch"} =>
                        o.app.message = None
        /\ app.screen \in {"CreateBranch", "DeleteBranch"} =>
            \A answer \in GatewayAnswers(app, EscKey) :
                \A o \in {handle_key_event(app, EscKey, answer)} :
                    /\ o.app.screen = "MainMenu"
                    /\ o.app.message = None
                    /\ o.calls = <<>>

\* C24 witness: the main menu showing the message of the delete just made,
\* with Create Branch selected; Enter opens CreateBranch without it.
C24_Witness ==
    /\ InScreen("MainMenu")
    /\ IsSome(app.message)
    /\ app.main_menu_selected = 0
    /\ app.branches # <<>>
    /\ \A answer \in GatewayAnswers(app, EnterKey) :
            /\ handle_key_event(app, EnterKey, answer).app.screen = "CreateBranch"
            /\ handle_key_event(app, EnterKey, answer).app.message = None

\* the worktree paths of the counted lines among the first i of L, in their
\* order: the path the listing reports for each entry of Entries(L, root, i)
RECURSIVE ListedPaths(_, _, _)
ListedPaths(L, root, i) ==
    IF i = 0 THEN <<>>
    ELSE ListedPaths(L, root, i - 1)
            \o (IF Counted(L, root, i)
                THEN <<PathFrom(L[CHOOSE j \in Owner(L, i) : TRUE].rest)>>
                ELSE <<>>)

\* C25: when the deletion of a branch of the delete list is confirmed, the
\* path handed to `git worktree remove` is the worktree path that the listing
\* reported for that branch, for every listing that gives the list on screen;
\* also for a worktree within the workspace root that is not at
\* workspace_root/branch.
C25_RemoveTargetsListedWorktree ==
    InScreen("ConfirmDelete") =>
        \A root \in {WorkspaceRoot(app.config)} :
            \A out \in PorcelainOutputs :
                Entries(out, root, Len(out)) = app.branches =>
                    \A run \in GatewayAnswers(app, CharKey("y")) :
                        \A o \in {handle_key_event(app, CharKey("y"), run)} :
                            /\ Len(o.calls) = 1
                            /\ o.calls[1].op = "remove"
                            /\ o.calls[1].arg = SelectedBranch
                            /\ o.calls[1].path =
                                   ListedPaths(out, root, Len(out))[app.selected_branch + 1]

\* C25, the branch whose worktree is at workspace_root/branch: there the
\* path handed to `git worktree remove` is the listed one.
C25_RemoveTargetsListedWorktreeAtRoot ==
    InScreen("ConfirmDelete") =>
        \A root \in {WorkspaceRoot(app.config)} :
            \A out \in PorcelainOutputs :
                /\ Entries(out, root, Len(out)) = app.branches
                /\ ListedPaths(out, root, Len(out))[app.selected_branch + 1]
                        = PathJoin(root, PathFrom(SelectedBranch))
                => \A run \in GatewayAnswers(app, CharKey("y")) :
                        \A o \in {handle_key_event(app, CharKey("y"), run)} :
                            /\ Len(o.calls) = 1
                            /\ o.calls[1].op = "remove"
                            /\ o.calls[1].path =
                                   ListedPaths(out, root, Len(out))[app.selected_branch + 1]

====
